---- MODULE Spec2Model ----
(***************************************************************************)
(* Model of ResuMate: resume_agent.py (Agent.generate_response, the five   *)
(* analysis agents, ResumeAgent.parse_resume / optimize_resume) and        *)
(* gradio_resume_app.py (GradioResumeApp.process_resume and its helpers).  *)
(*                                                                         *)
(* A Python str is modelled as a sequence of tokens (a token is a run of   *)
(* characters that no operation of the program cuts in two): str.strip,    *)
(* str.split, str.lower, re.match and json.loads are operators over these  *)
(* sequences, computed the way the library computes them.                  *)
(***************************************************************************)
EXTENDS Integers, Sequences, FiniteSets, TLC

(***************************************************************************)
(* Bounds of the model.                                                    *)
(***************************************************************************)
\* Python's recursion limit, scaled down: json.loads raises RecursionError
\* on a document nested deeper than this.
RecursionLimit == 2

(***************************************************************************)
(* The state of one process serving requests one at a time.                *)
(***************************************************************************)
VARIABLES
    pc,               \* where the request in progress stands
    entry,            \* "gradio" (process_resume), "direct" (optimize_resume)
    api_key,          \* the api_key argument of process_resume
    inputs_blank,     \* no file given and both pasted texts blank
    resume_content,   \* what _get_content resolved the resume to, if reached
    genai_key,        \* the process-wide credential (genai.configure)
    resume_text,      \* optimize_resume's resume_text argument
    job_description,  \* optimize_resume's job_description argument
    resume_data,      \* the ResumeData parsed from resume_text
    job_desc,         \* the JobDescription, present or not
    results,          \* the Report under construction: field -> value
    trace,            \* provider calls and Report stores, in order
    calls,            \* the provider calls: unit, credential, prompt
    resp,             \* what the provider did for each unit called
    exc,              \* the exception that left optimize_resume, "" if none
    output,           \* what process_resume returned
    p_text,           \* parse_resume checks: the input text,
    p_first,          \*   the result of parsing it,
    p_again,          \*   of parsing it once more,
    p_round,          \*   and of parsing the first result's raw_text
    p_pc

vars == <<pc, entry, api_key, inputs_blank, resume_content, genai_key, resume_text,
          job_description, resume_data, job_desc, results, trace, calls,
          resp, exc, output, p_text, p_first, p_again, p_round, p_pc>>

request_vars == <<entry, api_key, inputs_blank, resume_content, resume_text, job_description,
                  resume_data, job_desc, results, trace, calls, resp, exc,
                  output>>
parse_vars == <<p_text, p_first, p_again, p_round, p_pc>>

(***************************************************************************)
(* Text: tokens and the str operations the program uses.                   *)
(***************************************************************************)
SP == " "
NL == "\n"
Whitespace == {SP, NL}

\* Python's None for an Optional[str] argument, and a present string.
None == [isNone |-> TRUE, text |-> <<>>]
Some(t) == [isNone |-> FALSE, text |-> t]
\* Truthiness of an Optional[str]: None and "" are falsy.
Truthy(o) == ~o.isNone /\ Len(o.text) > 0

RECURSIVE LStrip(_)
LStrip(s) ==
    IF s # <<>> /\ Head(s) \in Whitespace THEN LStrip(Tail(s)) ELSE s

RECURSIVE RStrip(_)
RStrip(s) ==
    IF s # <<>> /\ s[Len(s)] \in Whitespace
    THEN RStrip(SubSeq(s, 1, Len(s) - 1)) ELSE s

\* str.strip()
Strip(s) == RStrip(LStrip(s))

\* str.split(sep): the pieces between the separators, empty pieces kept.
RECURSIVE SplitFrom(_, _, _, _)
SplitFrom(s, sep, i, cur) ==
    IF i > Len(s) THEN <<cur>>
    ELSE IF s[i] = sep THEN <<cur>> \o SplitFrom(s, sep, i + 1, <<>>)
    ELSE SplitFrom(s, sep, i + 1, Append(cur, s[i]))

Split(s, sep) == SplitFrom(s, sep, 1, <<>>)

(***************************************************************************)
(* JSON values, and json.loads over token sequences.                       *)
(* Every value is a record of one shape: kind in {"obj", "arr", "str",     *)
(* "num", "null", "member"}; an object's items are its members in          *)
(* insertion order, a member's atom is its key and its items hold its      *)
(* value.                                                                  *)
(***************************************************************************)
IsStrTok(t) == t \in {"\"error\"", "\"ats_score\"", "\"recommended_template\"",
                      "\"Modern\"", "\"overall_score\"",
                      "\"missing_keywords\""}
\* The characters between the quotes of a JSON string literal.
StrContent(t) ==
    CASE t = "\"error\"" -> "error"
      [] t = "\"ats_score\"" -> "ats_score"
      [] t = "\"recommended_template\"" -> "recommended_template"
      [] t = "\"Modern\"" -> "Modern"
      [] t = "\"overall_score\"" -> "overall_score"
      [] t = "\"missing_keywords\"" -> "missing_keywords"

IsNumTok(t) == t \in {"75", "429"}
NumValue(t) == CASE t = "75" -> 75 [] t = "429" -> 429

JNull == [kind |-> "null", atom |-> "", num |-> 0, items |-> <<>>]
JStr(s) == [kind |-> "str", atom |-> s, num |-> 0, items |-> <<>>]
JNum(n) == [kind |-> "num", atom |-> "", num |-> n, items |-> <<>>]
JArr(vs) == [kind |-> "arr", atom |-> "", num |-> 0, items |-> vs]
JObj(ms) == [kind |-> "obj", atom |-> "", num |-> 0, items |-> ms]
JMember(k, v) == [kind |-> "member", atom |-> k, num |-> 0, items |-> <<v>>]

\* dict[k] = v: a repeated key keeps its place and takes the later value.
ObjPut(ms, k, v) ==
    IF \E i \in 1..Len(ms) : ms[i].atom = k
    THEN [i \in 1..Len(ms) |-> IF ms[i].atom = k THEN JMember(k, v) ELSE ms[i]]
    ELSE Append(ms, JMember(k, v))

RECURSIVE SkipWs(_, _)
SkipWs(toks, i) ==
    IF i <= Len(toks) /\ toks[i] \in Whitespace THEN SkipWs(toks, i + 1) ELSE i

POk(v, n) == [st |-> "ok", val |-> v, nxt |-> n]
PBad == [st |-> "JSONDecodeError", val |-> JNull, nxt |-> 0]
PRec == [st |-> "RecursionError", val |-> JNull, nxt |-> 0]

RECURSIVE ParseValue(_, _, _, _)
RECURSIVE ArrItems(_, _, _, _, _)
RECURSIVE ObjItems(_, _, _, _, _)

\* One JSON value starting at token i, nested depth levels deep, under a
\* recursion limit of limit levels.
ParseValue(toks, i, depth, limit) ==
    IF i > Len(toks) THEN PBad
    ELSE IF toks[i] \in {"[", "{"} THEN
        IF depth >= limit THEN PRec
        ELSE LET j == SkipWs(toks, i + 1) IN
             IF j > Len(toks) THEN PBad
             ELSE IF toks[i] = "[" THEN
                 IF toks[j] = "]" THEN POk(JArr(<<>>), j + 1)
                 ELSE ArrItems(toks, j, depth + 1, limit, <<>>)
             ELSE
                 IF toks[j] = "}" THEN POk(JObj(<<>>), j + 1)
                 ELSE ObjItems(toks, j, depth + 1, limit, <<>>)
    ELSE IF IsStrTok(toks[i]) THEN POk(JStr(StrContent(toks[i])), i + 1)
    ELSE IF IsNumTok(toks[i]) THEN POk(JNum(NumValue(toks[i])), i + 1)
    ELSE IF toks[i] = "null" THEN POk(JNull, i + 1)
    ELSE PBad

\* The elements of an array from token i on, acc holding those before.
ArrItems(toks, i, depth, limit, acc) ==
    LET r == ParseValue(toks, i, depth, limit) IN
    IF r.st # "ok" THEN r
    ELSE LET k == SkipWs(toks, r.nxt) IN
         IF k > Len(toks) THEN PBad
         ELSE IF toks[k] = "]" THEN POk(JArr(Append(acc, r.val)), k + 1)
         ELSE IF toks[k] = ","
              THEN ArrItems(toks, SkipWs(toks, k + 1), depth, limit,
                            Append(acc, r.val))
         ELSE PBad

\* The members of an object from token i on, acc holding those before.
ObjItems(toks, i, depth, limit, acc) ==
    IF i > Len(toks) \/ ~IsStrTok(toks[i]) THEN PBad
    ELSE LET c == SkipWs(toks, i + 1) IN
         IF c > Len(toks) \/ toks[c] # ":" THEN PBad
         ELSE LET r == ParseValue(toks, SkipWs(toks, c + 1), depth, limit) IN
              IF r.st # "ok" THEN r
              ELSE LET k == SkipWs(toks, r.nxt)
                       acc2 == ObjPut(acc, StrContent(toks[i]), r.val)
                   IN
                   IF k > Len(toks) THEN PBad
                   ELSE IF toks[k] = "}" THEN POk(JObj(acc2), k + 1)
                   ELSE IF toks[k] = ","
                        THEN ObjItems(toks, SkipWs(toks, k + 1), depth, limit, acc2)
                   ELSE PBad

\* The JSON document text, decoded under a recursion limit: leading and
\* trailing whitespace allowed, anything else after the value is an error.
JsonParse(text, limit) ==
    LET r == ParseValue(text, SkipWs(text, 1), 0, limit) IN
    IF r.st # "ok" THEN r
    ELSE IF SkipWs(text, r.nxt) <= Len(text) THEN PBad
    ELSE r

\* json.loads(text): the value, or the exception it raises.
JsonLoads(text) == JsonParse(text, RecursionLimit)

(***************************************************************************)
(* ResumeAgent.parse_resume                                                *)
(***************************************************************************)
\* The one line of the sample resume's summary section.
SampleSummaryLine ==
    "Experienced software developer with 5 years in web development and system design."

\* The word of the header vocabulary that t.lower() starts with, "" when it
\* starts with none: what re.match, anchored at the start, looks for.
VocabPrefix(t) ==
    CASE t \in {"SUMMARY", "summary"} -> "summary"
      [] t \in {"EXPERIENCE", SampleSummaryLine} -> "experience"
      [] t = "Workshop" -> "work"
      [] t \in {"SKILLS", "Skills:"} -> "skills"
      [] t = "EDUCATION" -> "education"
      [] OTHER -> ""

\* As ReMatch, had the pattern been matched against the whole line
\* (re.fullmatch).
ReMatchWhole(words, line) ==
    /\ Len(line) = 1
    /\ line[1] \in {"SUMMARY", "summary", "EXPERIENCE", "SKILLS", "EDUCATION"}
    /\ VocabPrefix(line[1]) \in words

\* re.match(r'(w1|w2|...)', line.lower()) for a stripped line.
ReMatch(words, line) ==
    line # <<>> /\ VocabPrefix(line[1]) \in words

\* As SkillsOf, had the pieces been kept as split.
SkillsOfUntrimmed(line) == Split(line, ",")

\* line.split(',') with every piece stripped.
SkillsOf(line) ==
    LET pieces == Split(line, ",") IN
    [i \in 1..Len(pieces) |-> Strip(pieces[i])]

\* The locals of parse_resume before the loop.
ParseStart == [section |-> "none", summary |-> <<>>, skills |-> <<>>]

\* One iteration of the loop over the lines.
ParseLine(st, rawline) ==
    LET line == Strip(rawline) IN
    IF ReMatch({"summary", "profile", "objective"}, line)
        THEN [st EXCEPT !.section = "summary"]
    ELSE IF ReMatch({"experience", "work", "employment"}, line)
        THEN [st EXCEPT !.section = "experience"]
    ELSE IF ReMatch({"skills", "technical"}, line)
        THEN [st EXCEPT !.section = "skills"]
    ELSE IF ReMatch({"education", "academic"}, line)
        THEN [st EXCEPT !.section = "education"]
    ELSE IF line # <<>> /\ st.section # "none" THEN
        IF st.section = "summary"
            THEN [st EXCEPT !.summary = st.summary \o line \o <<SP>>]
        ELSE IF st.section = "skills"
            THEN [st EXCEPT !.skills = st.skills \o SkillsOf(line)]
        ELSE st
    ELSE st

RECURSIVE ParseLines(_, _, _)
ParseLines(st, lines, i) ==
    IF i > Len(lines) THEN st
    ELSE ParseLines(ParseLine(st, lines[i]), lines, i + 1)

PersonalInfo == [name |-> "John Doe", email |-> "john@email.com"]

\* parse_resume(resume_text), the accumulators starting from start.
ParseFrom(start, text) ==
    LET st == ParseLines(start, Split(text, NL), 1) IN
    [personal_info |-> PersonalInfo,
     summary |-> Strip(st.summary),
     experiences |-> <<>>,
     skills |-> st.skills,
     education |-> <<>>,
     raw_text |-> text]

\* As ParseResume, had the accumulators been attributes of the agent that
\* outlive a call instead of locals.
ParseResumeShared(text) ==
    ParseFrom([section |-> "none", summary |-> p_first.summary,
               skills |-> p_first.skills], text)

ParseResume(text) == ParseFrom(ParseStart, text)

(***************************************************************************)
(* The JobDescription that optimize_resume builds.                         *)
(***************************************************************************)
\* As NonEmptyStripped, had the comprehension no "if req.strip()".
AllStripped(pieces, i) ==
    [j \in 1..(Len(pieces) - i + 1) |-> Strip(pieces[i + j - 1])]

RECURSIVE NonEmptyStripped(_, _)
NonEmptyStripped(pieces, i) ==
    IF i > Len(pieces) THEN <<>>
    ELSE (IF Strip(pieces[i]) # <<>> THEN <<Strip(pieces[i])>> ELSE <<>>)
         \o NonEmptyStripped(pieces, i + 1)

NoJobDesc ==
    [present |-> FALSE, title |-> "", company |-> "", description |-> <<>>,
     requirements |-> <<>>, keywords |-> <<>>]

\* As MakeJobDesc, had the test been job_description.strip().
MakeJobDescStripped(job) ==
    IF Truthy(job) /\ Strip(job.text) # <<>>
    THEN [present |-> TRUE,
          title |-> "Target Position",
          company |-> "Target Company",
          description |-> job.text,
          requirements |->
              NonEmptyStripped(Split(job.text, "."), 1),
          keywords |-> <<>>]
    ELSE NoJobDesc

MakeJobDesc(job) ==
    IF Truthy(job)
    THEN [present |-> TRUE,
          title |-> "Target Position",
          company |-> "Target Company",
          description |-> job.text,
          requirements |->
              NonEmptyStripped(Split(job.text, "."), 1),
          keywords |-> <<>>]
    ELSE NoJobDesc

(***************************************************************************)
(* The built-in samples (one token per run of text that no operation of    *)
(* the program cuts).                                                      *)
(***************************************************************************)
get_sample_resume ==
    <<NL,
      SP, "John Doe", NL,
      SP, "Software Engineer", NL,
      SP, "john.doe@email.com", NL,
      SP, "(555) 123-4567", NL,
      SP, NL,
      SP, "SUMMARY", NL,
      SP, SampleSummaryLine, NL,
      SP, NL,
      SP, "EXPERIENCE", NL,
      SP, "Software Developer at TechCorp (2019-2024)", NL,
      SP, "- Developed web applications using Python and JavaScript", NL,
      SP, NL,
      SP, "SKILLS", NL,
      SP, "Python", ",", SP, "JavaScript", ",", SP, "REST APIs", NL,
      SP, NL,
      SP, "EDUCATION", NL,
      SP, "BS Computer Science", ",", SP, "University XYZ (2019)", NL,
      SP, "GPA: 3.7/4.0", NL,
      SP>>

get_sample_job_description ==
    <<NL, SP, "Senior Python Developer position at InnovaTech", NL,
      SP, NL,
      SP, "We are looking for an experienced Python developer", ".",
      SP, "The ideal candidate should have 3+ years of experience", ".", NL,
      SP, NL,
      SP, "Requirements: - 3+ years of Python development experience", NL,
      SP>>

(***************************************************************************)
(* The provider (google.generativeai) as the program sees it.              *)
(***************************************************************************)
\* The credentials the provider accepts.
ValidKeys == {<<"k-good">>}

\* A document nested n levels deep: n times "[", then n times "]".
RECURSIVE Nest(_)
Nest(n) == IF n = 0 THEN <<>> ELSE <<"[">> \o Nest(n - 1) \o <<"]">>

GoodText ==
    <<SP, "{", "\"recommended_template\"", ":", SP, "\"Modern\"", ",", NL,
      "\"ats_score\"", ":", "75", ",",
      "\"ats_score\"", ":", "[", "75", ",", SP, "null", "]", "}", NL>>
ListText == <<"[", "75", "]">>
ProseText == <<"Here is the analysis:", NL, "{", "}">>
\* An object whose missing_keywords is a number where a list is asked for.
ScalarText == <<"{", "\"missing_keywords\"", ":", SP, "75", "}">>
DeepText == Nest(RecursionLimit + 1)
\* The same document cut off before its first closing bracket.
DeepOpenText == SubSeq(DeepText, 1, RecursionLimit + 1)

\* The texts response.text may hold.
ProviderTexts ==
    {GoodText, ListText, ProseText, ScalarText, DeepText, DeepOpenText}

\* str(e) of the exceptions generate_content may raise.
AuthError == <<"400 API key not valid">>
QuotaError == <<"429">>

\* What one generate_content call under credential key can do: return a
\* text, or raise.
ProviderOutcomes(key) ==
    IF key \in ValidKeys
    THEN {[raised |-> FALSE, text |-> t] : t \in ProviderTexts}
         \cup {[raised |-> TRUE, text |-> QuotaError]}
    ELSE {[raised |-> TRUE, text |-> AuthError]}

(***************************************************************************)
(* Agent.generate_response and the agents' execute methods.                *)
(***************************************************************************)
ErrorPrefix == "Error generating response: "

\* As GenerateResponse, had the except branch returned str(e) alone.
GenerateResponseBare(o) == o.text

\* generate_response, given what the provider call did.
GenerateResponse(o) ==
    IF o.raised THEN <<ErrorPrefix>> \o o.text ELSE o.text

Units == <<"summary", "experience", "keyword", "design", "editing">>

FieldOf(unit) ==
    CASE unit = "summary" -> "new_summary"
      [] unit = "experience" -> "experience_matching"
      [] unit = "keyword" -> "keyword_optimization"
      [] unit = "design" -> "design_suggestions"
      [] unit = "editing" -> "editing_suggestions"

ErrorMessage(unit) ==
    CASE unit = "experience" -> "Failed to parse experience matching results"
      [] unit = "keyword" -> "Failed to parse keyword optimization results"
      [] unit = "design" -> "Failed to parse design suggestions"
      [] unit = "editing" -> "Failed to parse editing suggestions"

Sentinel(unit) == JObj(<<JMember("error", JStr(ErrorMessage(unit)))>>)

\* As Decode, had a decoded value that is no dict been treated as a failure.
DecodeDictOnly(unit, response) ==
    LET r == JsonLoads(response) IN
    IF r.st = "ok" /\ r.val.kind = "obj" THEN [raised |-> "", value |-> r.val]
    ELSE IF r.st \in {"ok", "JSONDecodeError"}
         THEN [raised |-> "", value |-> Sentinel(unit)]
    ELSE [raised |-> r.st, value |-> JNull]

\* The try/except around json.loads(response) of a JSON-returning agent:
\* the value, the sentinel on JSONDecodeError, any other exception raised.
Decode(unit, response) ==
    LET r == JsonLoads(response) IN
    IF r.st = "ok" THEN [raised |-> "", value |-> r.val]
    ELSE IF r.st = "JSONDecodeError"
         THEN [raised |-> "", value |-> Sentinel(unit)]
    ELSE [raised |-> r.st, value |-> JNull]

\* What the prompt of a unit interpolates.
Prompt(unit, rd, jd, text) ==
    CASE unit = "summary" ->
            [unit |-> unit, personal_info |-> rd.personal_info,
             experiences |-> rd.experiences, skills |-> rd.skills,
             education |-> rd.education, job |-> jd.present,
             title |-> jd.title, company |-> jd.company,
             requirements |-> jd.requirements]
      [] unit = "experience" ->
            [unit |-> unit, experiences |-> rd.experiences,
             title |-> jd.title, company |-> jd.company,
             description |-> jd.description,
             requirements |-> jd.requirements]
      [] unit = "keyword" ->
            [unit |-> unit, summary |-> rd.summary, skills |-> rd.skills,
             experiences |-> rd.experiences,
             description |-> jd.description,
             requirements |-> jd.requirements]
      [] unit = "design" ->
            [unit |-> unit,
             industry |-> IF jd.present THEN "Target" ELSE "General",
             personal_info |-> Cardinality(DOMAIN rd.personal_info),
             experiences |-> Len(rd.experiences),
             skills |-> Len(rd.skills), education |-> Len(rd.education)]
      [] unit = "editing" -> [unit |-> unit, text |-> text]

(***************************************************************************)
(* GradioResumeApp helpers.                                                *)
(***************************************************************************)
\* An uploaded file: absent, bytes that decode to text, or bytes that do
\* not decode (file.decode raises).
NoFile == [kind |-> "none", text |-> <<>>]
Bytes(t) == [kind |-> "bytes", text |-> t]
BadBytes == [kind |-> "undecodable", text |-> <<>>]

\* As GetContent, without the fallback to the sample.
GetContentNoSample(file, text, sample) ==
    IF file.kind = "bytes" THEN file.text ELSE Strip(text)

\* _get_content(file, text, sample, content_type)
GetContent(file, text, sample) ==
    IF file.kind = "bytes" THEN file.text
    ELSE IF text # <<>> /\ Strip(text) # <<>> THEN Strip(text)
    ELSE sample

\* _create_error_output(error_message)
CreateErrorOutput(error_message) ==
    [kind |-> "error",
     fields |-> <<error_message, <<>>, <<>>, <<>>, <<>>, <<>>>>]

NoOutput == [kind |-> "none", fields |-> <<>>]

\* isinstance(v, dict), key in v, v.get(key, default) on decoded values.
IsDict(v) == v.kind = "obj"
HasKey(v, k) == \E i \in 1..Len(v.items) : v.items[i].atom = k
Get(v, k, default) ==
    IF HasKey(v, k)
    THEN LET i == CHOOSE j \in 1..Len(v.items) : v.items[j].atom = k
         IN v.items[i].items[1]
    ELSE default

\* bool(v) of a decoded value.
Bool(v) ==
    CASE v.kind \in {"arr", "obj"} -> v.items # <<>>
      [] v.kind = "str" -> v.atom # ""
      [] v.kind = "num" -> v.num # 0
      [] OTHER -> FALSE

\* v[:n] is defined for lists and strings only.
Sliceable(v) == v.kind \in {"arr", "str"}
\* The elements iterating v[:n] yields (a string stands for its characters).
Elems(v, n) ==
    IF v.kind = "arr"
    THEN SubSeq(v.items, 1, IF Len(v.items) < n THEN Len(v.items) ELSE n)
    ELSE <<v>>
\* ', '.join(v[:n]) is defined when v[:n] is and holds strings only.
Joinable(v, n) ==
    Sliceable(v) /\ \A i \in 1..Len(Elems(v, n)) : Elems(v, n)[i].kind = "str"

Lit(s) == JStr(s)
NA == JStr("N/A")
EmptyList == JArr(<<>>)

\* The experience view of _format_results.
RECURSIVE ExperienceLines(_, _)
ExperienceLines(exps, i) ==
    IF i > Len(exps) THEN [raised |-> FALSE, out |-> <<>>]
    ELSE LET rest == ExperienceLines(exps, i + 1)
             points == Get(exps[i], "matching_points", EmptyList)
         IN
         IF ~IsDict(exps[i]) THEN rest
         ELSE IF ~Joinable(points, 3) THEN [raised |-> TRUE, out |-> <<>>]
         ELSE [raised |-> rest.raised,
               out |-> <<Lit("Experience"), JNum(i), Lit("Score"),
                         Get(exps[i], "relevance_score", NA),
                         Lit("Key matches:")>>
                       \o Elems(points, 3) \o rest.out]

ExperienceView(report) ==
    IF "experience_matching" \notin DOMAIN report
        THEN [raised |-> FALSE, out |-> <<>>]
    ELSE LET exp_data == report["experience_matching"] IN
         IF IsDict(exp_data) /\ HasKey(exp_data, "ranked_experiences") THEN
             LET ranked == Get(exp_data, "ranked_experiences", EmptyList) IN
             IF ~Sliceable(ranked) THEN [raised |-> TRUE, out |-> <<>>]
             ELSE LET r == ExperienceLines(Elems(ranked, 3), 1) IN
                  [raised |-> r.raised,
                   out |-> <<Lit("Experience Relevance Analysis:")>> \o r.out]
         ELSE [raised |-> FALSE, out |-> <<Lit("Experience analysis completed")>>]

\* The keyword view of _format_results.
KeywordView(report) ==
    IF "keyword_optimization" \notin DOMAIN report
        THEN [raised |-> FALSE, out |-> <<>>]
    ELSE LET kw_data == report["keyword_optimization"] IN
         IF IsDict(kw_data) THEN
             LET missing_kw == Get(kw_data, "missing_keywords", EmptyList)
                 recommendations == Get(kw_data, "recommendations", EmptyList)
             IN
             IF (Bool(missing_kw) /\ ~Joinable(missing_kw, 10))
                \/ (Bool(recommendations) /\ ~Sliceable(recommendations))
             THEN [raised |-> TRUE, out |-> <<>>]
             ELSE [raised |-> FALSE,
                   out |-> <<Lit("ATS Optimization Score:"),
                             Get(kw_data, "ats_score", NA)>>
                           \o (IF Bool(missing_kw)
                               THEN <<Lit("Missing Keywords:")>>
                                    \o Elems(missing_kw, 10)
                               ELSE <<>>)
                           \o (IF Bool(recommendations)
                               THEN <<Lit("Recommendations:")>>
                                    \o Elems(recommendations, 3)
                               ELSE <<>>)]
         ELSE [raised |-> FALSE, out |-> <<Lit("Keyword optimization completed")>>]

\* The design view of _format_results.
DesignView(report) ==
    IF "design_suggestions" \notin DOMAIN report
        THEN [raised |-> FALSE, out |-> <<>>]
    ELSE LET design_data == report["design_suggestions"] IN
         IF IsDict(design_data) THEN
             LET layout_tips == Get(design_data, "layout_suggestions", EmptyList)
             IN
             IF Bool(layout_tips) /\ ~Sliceable(layout_tips)
             THEN [raised |-> TRUE, out |-> <<>>]
             ELSE [raised |-> FALSE,
                   out |-> <<Lit("Recommended Template:"),
                             Get(design_data, "recommended_template",
                                 JStr("Standard"))>>
                           \o (IF Bool(layout_tips)
                               THEN <<Lit("Layout Suggestions:")>>
                                    \o Elems(layout_tips, 5)
                               ELSE <<>>)]
         ELSE [raised |-> FALSE, out |-> <<Lit("Design suggestions generated")>>]

\* The grammar lines of the editing view: only dict entries are shown.
RECURSIVE GrammarLines(_, _)
GrammarLines(errors, i) ==
    IF i > Len(errors) THEN <<>>
    ELSE (IF IsDict(errors[i])
          THEN <<Get(errors[i], "original", JStr("")),
                 Get(errors[i], "corrected", JStr(""))>>
          ELSE <<>>)
         \o GrammarLines(errors, i + 1)

\* The editing view of _format_results.
EditingView(report) ==
    IF "editing_suggestions" \notin DOMAIN report
        THEN [raised |-> FALSE, out |-> <<>>]
    ELSE LET edit_data == report["editing_suggestions"] IN
         IF IsDict(edit_data) THEN
             LET feedback == Get(edit_data, "summary_feedback", JStr(""))
                 grammar_errors == Get(edit_data, "grammar_errors", EmptyList)
             IN
             IF Bool(grammar_errors) /\ ~Sliceable(grammar_errors)
             THEN [raised |-> TRUE, out |-> <<>>]
             ELSE [raised |-> FALSE,
                   out |-> <<Lit("Overall Quality Score:"),
                             Get(edit_data, "overall_score", NA)>>
                           \o (IF Bool(feedback)
                               THEN <<Lit("Feedback:"), feedback>> ELSE <<>>)
                           \o (IF Bool(grammar_errors)
                               THEN <<Lit("Grammar Improvements:")>>
                                    \o GrammarLines(Elems(grammar_errors, 3), 1)
                               ELSE <<>>)]
         ELSE [raised |-> FALSE, out |-> <<Lit("Editing analysis completed")>>]

\* _format_results(results): the six display fields, or an exception.
FormatResults(report) ==
    LET e == ExperienceView(report)
        k == KeywordView(report)
        d == DesignView(report)
        g == EditingView(report)
    IN
    IF e.raised \/ k.raised \/ d.raised \/ g.raised
    THEN [raised |-> TRUE, fields |-> <<>>]
    ELSE [raised |-> FALSE,
          fields |-> <<IF "new_summary" \in DOMAIN report
                       THEN report["new_summary"]
                       ELSE <<"No summary generated">>,
                       e.out, k.out, d.out, g.out,
                       [json_dumps |-> report]>>]

(***************************************************************************)
(* The state after import, and between requests.                           *)
(***************************************************************************)
NoResumeData ==
    [personal_info |-> [name |-> "", email |-> ""], summary |-> <<>>,
     experiences |-> <<>>, skills |-> <<>>, education |-> <<>>,
     raw_text |-> <<>>]

\* The request state when no request is in progress.
Idle ==
    /\ pc = "idle"
    /\ entry = "none"
    /\ api_key = None
    /\ inputs_blank = FALSE
    /\ resume_content = None
    /\ resume_text = <<>>
    /\ job_description = None
    /\ resume_data = NoResumeData
    /\ job_desc = NoJobDesc
    /\ results = <<>>
    /\ trace = <<>>
    /\ calls = <<>>
    /\ resp = <<>>
    /\ exc = ""
    /\ output = NoOutput

ParseIdle ==
    /\ p_text = <<>>
    /\ p_first = NoResumeData
    /\ p_again = NoResumeData
    /\ p_round = NoResumeData
    /\ p_pc = "off"

\* After import: genai.configure(api_key="YOUR_GEMINI_API_KEY").
Init ==
    /\ Idle
    /\ genai_key = <<"YOUR_GEMINI_API_KEY">>
    /\ ParseIdle

(***************************************************************************)
(* The inputs of the requests.                                             *)
(***************************************************************************)
SkillsResume == <<"SKILLS", NL, "Python", ",", SP, "Go", ",", SP, "Rust", NL>>
PastedResume == <<SP, "summary", NL, "Backend developer", NL, "Workshop", SP>>
\* Text before the first header, headers with more text on their line, and
\* text after each of them.
HeaderTextResume ==
    <<"Python", NL, "summary", SP, "Python", NL, "Go", NL,
      "Skills:", SP, "Go", NL, "Rust", ",", "Go", NL, "Workshop", NL, "Rust">>
PastedJob == <<NL, "Build APIs", ".", SP, ".", "Own the service", SP>>

ApiKeys ==
    {None, Some(<<>>), Some(<<SP>>), Some(<<SP, "k-good", NL>>),
     Some(<<"k-bad">>)}
ResumeFiles == {NoFile, BadBytes, Bytes(<<>>), Bytes(SkillsResume)}
ResumeTexts == {<<>>, <<SP, NL>>, PastedResume}
JobFiles == {NoFile, Bytes(<<>>), Bytes(<<SP>>)}
JobTexts == {<<>>, <<NL>>, PastedJob}

DirectResumes == {SkillsResume, <<>>}
DirectJobs == {None, Some(<<>>), Some(PastedJob)}

(***************************************************************************)
(* ResumeAgent.optimize_resume, up to the first provider call.             *)
(***************************************************************************)
Timestamp == "datetime.now().isoformat()"

OptimizeStart(text, job) ==
    /\ resume_text' = text
    /\ job_description' = job
    /\ resume_data' = ParseResume(text)
    /\ job_desc' = MakeJobDesc(job)
    /\ results' = ("timestamp" :> Timestamp)
                  @@ ("original_resume" :> resume_data')
    /\ pc' = "summary"
    /\ UNCHANGED <<trace, calls, resp, exc, output>>

\* A caller of the library calls optimize_resume(resume_text, job_description).
OptimizeResume ==
    /\ pc = "idle"
    /\ \E text \in DirectResumes, job \in DirectJobs :
        /\ entry' = "direct"
        /\ OptimizeStart(text, job)
    /\ UNCHANGED <<api_key, inputs_blank, resume_content, genai_key>>
    /\ UNCHANGED parse_vars

(***************************************************************************)
(* GradioResumeApp.process_resume, up to the first provider call.          *)
(***************************************************************************)
\* not api_key or api_key.strip() == ""
KeyMissing(key) == ~Truthy(key) \/ Strip(key.text) = <<>>

\* As NoContent, had the test been resume_content is None.
NoContentIsNone(content) == FALSE

\* not resume_content
NoContent(content) == content = <<>>

\* The error messages are the source's without their leading emoji.
\* genai.configure stores the key and validates nothing, so the except
\* branch around it is never taken for a string.
ProcessResume ==
    /\ pc = "idle"
    /\ \E resume_file \in ResumeFiles, text \in ResumeTexts,
          job_file \in JobFiles, job_text \in JobTexts, key \in ApiKeys :
        LET content == GetContent(resume_file, text, get_sample_resume)
            job_content ==
                GetContent(job_file, job_text, get_sample_job_description)
        IN
        /\ entry' = "gradio"
        /\ api_key' = key
        /\ inputs_blank' = (/\ resume_file = NoFile
                            /\ job_file = NoFile
                            /\ Strip(text) = <<>>
                            /\ Strip(job_text) = <<>>)
        /\ IF KeyMissing(key) THEN
               /\ output' = CreateErrorOutput(
                                <<"Please provide a valid Gemini API key">>)
               /\ pc' = "done"
               /\ UNCHANGED <<genai_key, resume_content, resume_text,
                              job_description, resume_data, job_desc,
                              results, trace, calls, resp, exc>>
           ELSE
               /\ genai_key' = Strip(key.text)
               /\ resume_content' = Some(content)
               /\ IF NoContent(content) THEN
                      /\ output' = CreateErrorOutput(
                                       <<"No resume content provided">>)
                      /\ pc' = "done"
                      /\ UNCHANGED <<resume_text, job_description,
                                     resume_data, job_desc, results, trace,
                                     calls, resp, exc>>
                  ELSE OptimizeStart(content, Some(job_content))
    /\ UNCHANGED parse_vars

(***************************************************************************)
(* The units, in the order optimize_resume runs them.                      *)
(***************************************************************************)
\* results[field] = agent.execute(...): one provider call, the decode, and
\* the store; an exception leaving execute leaves optimize_resume.
RunUnit(unit, next) ==
    \E o \in ProviderOutcomes(genai_key) :
        LET response == GenerateResponse(o)
            d == IF unit = "summary"
                 THEN [raised |-> "", value |-> response]
                 ELSE Decode(unit, response)
            call == [ev |-> "call", unit |-> unit]
            store == [ev |-> "store", unit |-> unit]
        IN
        /\ calls' = Append(calls,
                           [unit |-> unit, key |-> genai_key,
                            prompt |-> Prompt(unit, resume_data, job_desc,
                                              resume_text)])
        /\ resp' = (unit :> o) @@ resp
        /\ IF d.raised # "" THEN
               /\ trace' = Append(trace, call)
               /\ exc' = d.raised
               /\ pc' = "raised"
               /\ UNCHANGED results
           ELSE
               /\ trace' = trace \o <<call, store>>
               /\ results' = (FieldOf(unit) :> d.value) @@ results
               /\ pc' = next
               /\ UNCHANGED exc
        /\ UNCHANGED <<entry, api_key, inputs_blank, resume_content,
                       genai_key, resume_text, job_description, resume_data,
                       job_desc, output>>
        /\ UNCHANGED parse_vars

SummaryStep ==
    /\ pc = "summary"
    /\ RunUnit("summary", IF job_desc.present THEN "experience" ELSE "design")

ExperienceStep ==
    /\ pc = "experience"
    /\ RunUnit("experience", "keyword")

KeywordStep ==
    /\ pc = "keyword"
    /\ RunUnit("keyword", "design")

DesignStep ==
    /\ pc = "design"
    /\ RunUnit("design", "editing")

EditingStep ==
    /\ pc = "editing"
    /\ RunUnit("editing", "returned")

(***************************************************************************)
(* process_resume after optimize_resume.                                   *)
(***************************************************************************)
\* return self._format_results(results), inside the try.
FormatStep ==
    /\ pc = "returned"
    /\ entry = "gradio"
    /\ LET f == FormatResults(results) IN
       output' = IF f.raised
                 THEN CreateErrorOutput(
                          <<"Error during optimization: ", "TypeError">>)
                 ELSE [kind |-> "report", fields |-> f.fields]
    /\ pc' = "done"
    /\ UNCHANGED <<entry, api_key, inputs_blank, resume_content, genai_key,
                   resume_text, job_description, resume_data, job_desc,
                   results, trace, calls, resp, exc>>
    /\ UNCHANGED parse_vars

\* except Exception as e: the exception that left optimize_resume.
CatchStep ==
    /\ pc = "raised"
    /\ entry = "gradio"
    /\ output' = CreateErrorOutput(<<"Error during optimization: ", exc>>)
    /\ pc' = "done"
    /\ UNCHANGED <<entry, api_key, inputs_blank, resume_content, genai_key,
                   resume_text, job_description, resume_data, job_desc,
                   results, trace, calls, resp, exc>>
    /\ UNCHANGED parse_vars

\* The request is over; the process (and its credential) lives on.
Finished ==
    \/ pc = "done"
    \/ entry = "direct" /\ pc \in {"returned", "raised"}

NextRequest ==
    /\ Finished
    /\ pc' = "idle"
    /\ entry' = "none"
    /\ api_key' = None
    /\ inputs_blank' = FALSE
    /\ resume_content' = None
    /\ resume_text' = <<>>
    /\ job_description' = None
    /\ resume_data' = NoResumeData
    /\ job_desc' = NoJobDesc
    /\ results' = <<>>
    /\ trace' = <<>>
    /\ calls' = <<>>
    /\ resp' = <<>>
    /\ exc' = ""
    /\ output' = NoOutput
    /\ UNCHANGED genai_key
    /\ UNCHANGED parse_vars

Next ==
    \/ ProcessResume
    \/ OptimizeResume
    \/ SummaryStep
    \/ ExperienceStep
    \/ KeywordStep
    \/ DesignStep
    \/ EditingStep
    \/ FormatStep
    \/ CatchStep
    \/ NextRequest

Spec == Init /\ [][Next]_vars

(***************************************************************************)
(* Two requests at once: while a process_resume request is between two of  *)
(* its units, another worker thread of the server runs process_resume for  *)
(* another request as far as its genai.configure call.  The other          *)
(* request's units share nothing else with this one and are left out.      *)
(***************************************************************************)
InFlight == pc \in {"summary", "experience", "keyword", "design", "editing"}

ConcurrentConfigure ==
    /\ entry = "gradio"
    /\ InFlight
    /\ \E key \in ApiKeys :
        /\ ~KeyMissing(key)
        /\ Strip(key.text) # genai_key
        /\ genai_key' = Strip(key.text)
    /\ UNCHANGED pc
    /\ UNCHANGED request_vars
    /\ UNCHANGED parse_vars

ConcurrentNext == Next \/ ConcurrentConfigure

ConcurrentSpec == Init /\ [][ConcurrentNext]_vars

(***************************************************************************)
(* parse_resume on its own: every text of up to MaxTextLen tokens over     *)
(* ParseAlphabet, and the resumes of the requests above, parsed, parsed    *)
(* once more, and parsed from the first result's raw_text.                 *)
(***************************************************************************)
MaxTextLen == 3

ParseAlphabet == {"SKILLS", "summary", "Workshop", "Python", ",", SP, NL}

TextsUpTo(n) == UNION {[1..k -> ParseAlphabet] : k \in 0..n}

ParseInputs ==
    TextsUpTo(MaxTextLen)
        \cup {get_sample_resume, SkillsResume, PastedResume, HeaderTextResume}

ParseInit ==
    /\ Idle
    /\ genai_key = <<"YOUR_GEMINI_API_KEY">>
    /\ p_text \in ParseInputs
    /\ p_first = NoResumeData
    /\ p_again = NoResumeData
    /\ p_round = NoResumeData
    /\ p_pc = "start"

ParseFirst ==
    /\ p_pc = "start"
    /\ p_first' = ParseResume(p_text)
    /\ p_pc' = "first"
    /\ UNCHANGED <<p_text, p_again, p_round, pc, genai_key>>
    /\ UNCHANGED request_vars

ParseAgain ==
    /\ p_pc = "first"
    /\ p_again' = ParseResume(p_text)
    /\ p_pc' = "again"
    /\ UNCHANGED <<p_text, p_first, p_round, pc, genai_key>>
    /\ UNCHANGED request_vars

ParseRound ==
    /\ p_pc = "again"
    /\ p_round' = ParseResume(p_first.raw_text)
    /\ p_pc' = "round"
    /\ UNCHANGED <<p_text, p_first, p_again, pc, genai_key>>
    /\ UNCHANGED request_vars

ParseNext == ParseFirst \/ ParseAgain \/ ParseRound

ParseSpec == ParseInit /\ [][ParseNext]_vars

(***************************************************************************)
(* optimize_resume called by a user of the library, in a process where     *)
(* process_resume never ran: with every resume of ParseInputs and no job   *)
(* description, and with every job description of up to MaxJobLen tokens   *)
(* over JobAlphabet.                                                       *)
(***************************************************************************)
MaxJobLen == 3

JobAlphabet == {"Build APIs", "Own the service", ".", SP, NL}

JobInputs ==
    UNION {[1..k -> JobAlphabet] : k \in 0..MaxJobLen}
        \cup {PastedJob, get_sample_job_description}

OptimizeAnyResume ==
    /\ pc = "idle"
    /\ \E text \in ParseInputs :
        /\ entry' = "direct"
        /\ OptimizeStart(text, None)
    /\ UNCHANGED <<api_key, inputs_blank, resume_content, genai_key>>
    /\ UNCHANGED parse_vars

OptimizeAnyJob ==
    /\ pc = "idle"
    /\ \E job \in JobInputs :
        /\ entry' = "direct"
        /\ OptimizeStart(SkillsResume, Some(job))
    /\ UNCHANGED <<api_key, inputs_blank, resume_content, genai_key>>
    /\ UNCHANGED parse_vars

DirectNext ==
    \/ OptimizeAnyResume
    \/ OptimizeAnyJob
    \/ SummaryStep
    \/ ExperienceStep
    \/ KeywordStep
    \/ DesignStep
    \/ EditingStep
    \/ NextRequest

DirectSpec == Init /\ [][DirectNext]_vars

(***************************************************************************)
(* Properties.                                                             *)
(***************************************************************************)
BaseKeys ==
    {"timestamp", "original_resume", "new_summary", "design_suggestions",
     "editing_suggestions"}
JobKeys == {"experience_matching", "keyword_optimization"}
JsonUnits == {"experience", "keyword", "design", "editing"}

\* The text is a JSON document by the grammar, however deep it nests.
WellFormed(text) == JsonParse(text, Len(text) + 1).st = "ok"

\* C1: the Report optimize_resume returns has exactly the keys timestamp,
\* original_resume, new_summary, design_suggestions and editing_suggestions,
\* and experience_matching and keyword_optimization if and only if
\* job_description is a non-empty string.
C1_ReportKeys ==
    pc = "returned" =>
        DOMAIN results =
            BaseKeys \cup (IF ~job_description.isNone
                              /\ job_description.text # <<>>
                           THEN JobKeys ELSE {})

\* A Report returned for a job description of one space: non-empty, though
\* it yields no requirement.
C1_Witness ==
    /\ pc = "returned"
    /\ job_description = Some(<<SP>>)
    /\ JobKeys \subseteq DOMAIN results

\* C2: whatever the provider call of each unit does (returns any text or
\* raises any exception), no exception leaves optimize_resume.
C2_NeverRaises == pc # "raised"

\* The Report field a unit contributes when nothing but its own provider
\* response decides it.
OwnValue(unit) ==
    LET response == GenerateResponse(resp[unit]) IN
    IF unit = "summary" THEN response
    ELSE IF JsonLoads(response).st = "ok" THEN JsonLoads(response).val
    ELSE Sentinel(unit)

\* C3: once optimize_resume is over, a JSON-returning unit that was given a
\* text that is not valid JSON has the sentinel {"error": <its message>} in
\* its Report field, and every other unit that ran has the value its own
\* provider response decides.
C3_UnitIsolation ==
    pc \in {"returned", "raised"} =>
        \A u \in JsonUnits \cap DOMAIN resp :
            (~resp[u].raised /\ ~WellFormed(resp[u].text)) =>
                /\ FieldOf(u) \in DOMAIN results
                /\ results[FieldOf(u)] = Sentinel(u)
                /\ \A v \in DOMAIN resp \ {u} :
                       /\ FieldOf(v) \in DOMAIN results
                       /\ results[FieldOf(v)] = OwnValue(v)

\* The credential is one the provider does not accept.
KeyInvalid(key) == ~KeyMissing(key) /\ Strip(key.text) \notin ValidKeys

\* C4: a process_resume request whose api_key is missing or invalid is
\* rejected before any unit runs: it has ended with the error output, no
\* provider call made and no Report begun.
C4_BadCredentialRejected ==
    (entry = "gradio" /\ (KeyMissing(api_key) \/ KeyInvalid(api_key))) =>
        /\ pc = "done"
        /\ output.kind = "error"
        /\ calls = <<>>
        /\ results = <<>>

Call(u) == [ev |-> "call", unit |-> u]
Store(u) == [ev |-> "store", unit |-> u]
RECURSIVE CallsAndStores(_, _)
CallsAndStores(us, i) ==
    IF i > Len(us) THEN <<>>
    ELSE <<Call(us[i]), Store(us[i])>> \o CallsAndStores(us, i + 1)

\* C5: once optimize_resume is over it has made one provider call per
\* scheduled unit, each followed by the store of that unit's field before
\* the next call: Summary, ExperienceMatching, KeywordOptimization, Design,
\* Editing with a non-empty job_description, and Summary, Design, Editing
\* with an empty one or None.
C5_CallSequence ==
    pc \in {"returned", "raised"} =>
        trace = CallsAndStores(
                    IF Truthy(job_description)
                    THEN <<"summary", "experience", "keyword", "design",
                           "editing">>
                    ELSE <<"summary", "design", "editing">>, 1)

\* C6: a unit whose provider call raised did not raise itself: the Summary
\* unit stored "Error generating response: " followed by the failure text
\* as new_summary, and a JSON-returning unit stored its error sentinel.
C6_ProviderErrorAbsorbed ==
    \A u \in DOMAIN resp :
        resp[u].raised =>
            /\ FieldOf(u) \in DOMAIN results
            /\ u = "summary" =>
                   results["new_summary"] = <<ErrorPrefix>> \o resp[u].text
            /\ u # "summary" => results[FieldOf(u)] = Sentinel(u)

\* The provider call of the keyword unit failed with a message that is
\* itself a JSON document ("429"), and that of the summary unit failed too.
C6_Witness ==
    /\ {"summary", "keyword"} \subseteq DOMAIN resp
    /\ resp["summary"].raised
    /\ resp["keyword"].raised
    /\ resp["keyword"].text = QuotaError
    /\ WellFormed(resp["keyword"].text)

\* What GoodText and ListText denote.
GoodValue ==
    JObj(<<JMember("recommended_template", JStr("Modern")),
           JMember("ats_score", JArr(<<JNum(75), JNull>>))>>)
ListValue == JArr(<<JNum(75)>>)

SamplesUsed ==
    /\ resume_text = get_sample_resume
    /\ job_description = Some(get_sample_job_description)
    /\ pc = "returned" =>
           (JobKeys \cup {"new_summary", "design_suggestions",
                          "editing_suggestions"}) \subseteq DOMAIN results

\* C8 as stated: process_resume called with a non-empty credential, no file
\* and both pasted texts blank passes the samples to optimize_resume, whose
\* Report has the five result fields.
C8_SampleFallback_Stated ==
    (entry = "gradio" /\ inputs_blank /\ Truthy(api_key)) => SamplesUsed

\* C8 amended: the same for a credential that is not blank (neither empty
\* nor whitespace only).
C8_SampleFallback ==
    (entry = "gradio" /\ inputs_blank /\ ~KeyMissing(api_key)) => SamplesUsed

\* A Report of five result fields returned for a request with nothing but
\* a credential.
C8_Witness ==
    /\ entry = "gradio"
    /\ inputs_blank
    /\ pc = "returned"
    /\ resume_text = get_sample_resume
    /\ JobKeys \subseteq DOMAIN results

Sections(rd) ==
    <<rd.summary, rd.skills, rd.experiences, rd.education, rd.personal_info>>

C10_InputError ==
    (entry = "gradio" /\ resume_content = Some(<<>>)) =>
        /\ pc = "done"
        /\ output = [kind |-> "error",
                     fields |-> <<<<"No resume content provided">>,
                                  <<>>, <<>>, <<>>, <<>>, <<>>>>]
        /\ calls = <<>>
        /\ trace = <<>>
        /\ results = <<>>

\* An empty resume file uploaded with a credential the provider accepts.
C10_Witness ==
    /\ entry = "gradio"
    /\ resume_content = Some(<<>>)
    /\ genai_key \in ValidKeys
    /\ pc = "done"

(***************************************************************************)
(* Skills parsing.                                                         *)
(***************************************************************************)
\* The vocabulary word the line is a header for, "" when it is no header.
HeaderKind(rawline) ==
    LET line == Strip(rawline) IN
    IF line = <<>> THEN "" ELSE VocabPrefix(line[1])

\* Line i follows a skills header with no header in between, itself
\* included.
InSkillsSection(lines, i) ==
    \E h \in 1..(i - 1) :
        /\ HeaderKind(lines[h]) \in {"skills", "technical"}
        /\ \A k \in (h + 1)..i : HeaderKind(lines[k]) = ""

\* The comma-separated pieces of the line, each trimmed.
TrimmedPieces(line) ==
    LET pieces == Split(line, ",") IN
    [j \in 1..Len(pieces) |-> Strip(pieces[j])]

RECURSIVE ExpectedSkills(_, _)
ExpectedSkills(lines, i) ==
    IF i > Len(lines) THEN <<>>
    ELSE (IF InSkillsSection(lines, i) /\ Strip(lines[i]) # <<>>
          THEN TrimmedPieces(lines[i]) ELSE <<>>)
         \o ExpectedSkills(lines, i + 1)

\* C11: the parsed skills are, in order, the comma-separated pieces, each
\* trimmed, of every non-blank non-header line between a skills header and
\* the next header; the resume "SKILLS\nPython, Go, Rust\n" with no job
\* description gives the skills Python, Go, Rust and a Report whose unit
\* fields are new_summary, design_suggestions and editing_suggestions only.
C11_SkillsParsing ==
    /\ entry = "direct" =>
            resume_data.skills = ExpectedSkills(Split(resume_text, NL), 1)
    /\ (entry = "direct" /\ resume_text = SkillsResume
            /\ job_description = None) =>
            /\ resume_data.skills = <<<<"Python">>, <<"Go">>, <<"Rust">>>>
            /\ pc = "returned" => DOMAIN results = BaseKeys

\* The Report returned for the skills-only resume and no job description.
C11_Witness ==
    /\ pc = "returned"
    /\ entry = "direct"
    /\ resume_text = SkillsResume
    /\ job_description = None
    /\ resume_data.skills = <<<<"Python">>, <<"Go">>, <<"Rust">>>>
    /\ DOMAIN results = BaseKeys

(***************************************************************************)
(* Job description construction.                                           *)
(***************************************************************************)
NonBlank(piece) == Strip(piece) # <<>>

\* The pieces of the text between its full stops that are not blank, each
\* trimmed.
ExpectedRequirements(text) ==
    LET kept == SelectSeq(Split(text, "."), NonBlank) IN
    [j \in 1..Len(kept) |-> Strip(kept[j])]

\* C12: for every non-empty job_description, the JobDescription that
\* optimize_resume builds has the input as description, as requirements the
\* non-empty trimmed pieces of the input split on ".", in order (none empty,
\* none with surrounding whitespace), no keywords, and the placeholder title
\* and company.
C12_JobDescription ==
    Truthy(job_description) =>
        /\ job_desc.present
        /\ job_desc.description = job_description.text
        /\ job_desc.requirements = ExpectedRequirements(job_description.text)
        /\ \A j \in 1..Len(job_desc.requirements) :
            LET req == job_desc.requirements[j] IN
            /\ req # <<>>
            /\ req[1] \notin Whitespace
            /\ req[Len(req)] \notin Whitespace
        /\ job_desc.keywords = <<>>
        /\ job_desc.title = "Target Position"
        /\ job_desc.company = "Target Company"

\* The JobDescription built from a text with an empty piece, a blank piece
\* and pieces with surrounding whitespace.
C12_Witness ==
    /\ job_description = Some(PastedJob)
    /\ job_desc.description = PastedJob
    /\ job_desc.requirements = <<<<"Build APIs">>, <<"Own the service">>>>

(***************************************************************************)
(* The shape of the JSON-returning units' results.                         *)
(***************************************************************************)
\* C13: for every provider response, the result of each JSON-returning unit
\* (experience matching, keyword optimization, design, editing) is a mapping,
\* the decoded object or the sentinel {"error": message}, never a bare list,
\* number, string, boolean or null.
C13_StructuredMapping ==
    \A u \in JsonUnits :
        FieldOf(u) \in DOMAIN results => results[FieldOf(u)].kind = "obj"

(***************************************************************************)
(* The presentation boundary.                                              *)
(***************************************************************************)
\* C14: whenever the credential and the resume content are non-empty,
\* process_resume returns the complete formatted report, the full Report as
\* JSON text included, and never the error output, whatever values the units
\* produced.
C14_AlwaysReport ==
    (/\ entry = "gradio"
     /\ pc = "done"
     /\ ~KeyMissing(api_key)
     /\ Truthy(resume_content)) =>
        /\ output.kind = "report"
        /\ Len(output.fields) = 6
        /\ output.fields[6] = [json_dumps |-> results]

(***************************************************************************)
(* The process-wide credential.                                            *)
(***************************************************************************)
\* A request has configured the credential since import.
Configured == genai_key # <<"YOUR_GEMINI_API_KEY">>

\* Every provider call of the process_resume request in progress was made
\* under the credential that request supplied.
OwnCredential ==
    entry = "gradio" =>
        \A i \in 1..Len(calls) : calls[i].key = Strip(api_key.text)

\* C15: the process-wide credential is configured once and never changes
\* afterwards, whatever requests and units run, so every provider call of a
\* process_resume request, other requests being handled at the same time or
\* not, is made under the credential that request supplied.
C15_CredentialImmutable ==
    /\ []OwnCredential
    /\ [][Configured => genai_key' = genai_key]_vars

(***************************************************************************)
(* Header classification.                                                  *)
(***************************************************************************)
\* Line i follows a summary header with no header in between, itself
\* included.
InSummarySection(lines, i) ==
    \E h \in 1..(i - 1) :
        /\ HeaderKind(lines[h]) \in {"summary", "profile", "objective"}
        /\ \A k \in (h + 1)..i : HeaderKind(lines[k]) = ""

RECURSIVE SummaryText(_, _)
SummaryText(lines, i) ==
    IF i > Len(lines) THEN <<>>
    ELSE (IF InSummarySection(lines, i) /\ Strip(lines[i]) # <<>>
          THEN Strip(lines[i]) \o <<SP>> ELSE <<>>)
         \o SummaryText(lines, i + 1)

\* C16: a line whose trimmed, lower-cased text begins with a vocabulary word
\* is a section header, whatever follows the word on the line: it switches
\* the active section and none of its text goes to summary or skills; the
\* lines before the first header are discarded.
C16_HeaderByPrefix ==
    p_pc # "start" =>
        LET lines == Split(p_text, NL) IN
        /\ p_first.summary = Strip(SummaryText(lines, 1))
        /\ p_first.skills = ExpectedSkills(lines, 1)
        /\ (\A i \in 1..Len(lines) : HeaderKind(lines[i]) = "") =>
                /\ p_first.summary = <<>>
                /\ p_first.skills = <<>>

\* The resume with text before the first header and headers with more text
\* on their line, parsed.
C16_Witness ==
    /\ p_pc = "first"
    /\ p_text = HeaderTextResume
    /\ p_first.summary = <<"Go">>
    /\ p_first.skills = <<<<"Rust">>, <<"Go">>>>

====
